---- MODULE Spec2Model ----
(***************************************************************************)
(* A model of trapping.h: the narrowing check cast_truncate, the           *)
(* overflow probes add/sub/mul/div/mod_overflow, the trapping entry points *)
(* trapping_cast/add/sub/mul/div/mod and the value type trapping<T>.       *)
(*                                                                         *)
(* An integral type is a record [signed, size] (size in bytes, as sizeof   *)
(* gives it); a value of the type is the mathematical integer it denotes.  *)
(* Every conversion and every arithmetic step is computed the way the C++  *)
(* abstract machine computes it on an LP64 two's-complement build: the     *)
(* operands of a built-in operator are promoted to int first, a conversion *)
(* to a narrower type keeps the low bits.                                  *)
(***************************************************************************)
EXTENDS Integers, FiniteSets, Sequences, TLC

(***************************************************************************)
(* Bounds of the exploration.                                              *)
(***************************************************************************)
\* Sampled values of a type lie within Near of one of its pivots.
Near == 1

(***************************************************************************)
(* Integral types and their limits.                                        *)
(***************************************************************************)
CHAR_BIT == 8

Int8   == [signed |-> TRUE,  size |-> 1]
UInt8  == [signed |-> FALSE, size |-> 1]
Int16  == [signed |-> TRUE,  size |-> 2]
UInt16 == [signed |-> FALSE, size |-> 2]
Int32  == [signed |-> TRUE,  size |-> 4]

\* Number of bits of T: CHAR_BIT * sizeof(T).
Bits(t) == CHAR_BIT * t.size

\* std::numeric_limits<T>::max().  (2^(b-2) - 1) * 2 + 1 is 2^(b-1) - 1
\* computed without leaving the 32-bit range of the checker's integers.
numeric_limits_max(t) ==
  IF t.signed THEN (2^(Bits(t) - 2) - 1) * 2 + 1 ELSE 2^Bits(t) - 1

\* std::numeric_limits<T>::min().
numeric_limits_min(t) ==
  IF t.signed THEN (0 - numeric_limits_max(t)) - 1 ELSE 0

\* v is a value of type t: min <= v <= max.  For an unsigned type the upper
\* limit 2^b - 1 is tested as v div 2^(b-2) < 4, which stays within the
\* checker's integers when b is 32.
InRange(t, v) ==
  IF t.signed THEN numeric_limits_min(t) <= v /\ v <= numeric_limits_max(t)
  ELSE 0 <= v /\ v \div (2^(Bits(t) - 2)) < 4

\* static_cast<R>(v): the unique value of R congruent to v modulo 2^bits(R).
\* (A value already in range is its own residue; the modulus is only formed
\* for a value out of range, which for a 32-bit target never arises here.)
static_cast(r, v) ==
  IF InRange(r, v) THEN v
  ELSE LET m == v % (2^Bits(r))
       IN  IF r.signed /\ m > numeric_limits_max(r) THEN m - 2^Bits(r) ELSE m

\* Integral promotion: every type narrower than int becomes int.
Promote(t) == IF t.size < Int32.size THEN Int32 ELSE t

Abs(a) == IF a < 0 THEN 0 - a ELSE a

\* The built-in / of C++: the quotient truncated towards zero.
TruncDiv(a, b) ==
  IF (a < 0) = (b < 0) THEN Abs(a) \div Abs(b) ELSE 0 - (Abs(a) \div Abs(b))

\* The built-in % of C++: a - (a / b) * b, with the sign of the dividend.
TruncMod(a, b) == a - TruncDiv(a, b) * b

(***************************************************************************)
(* cast_truncate: the narrowing check.  `result` is the value *result      *)
(* holds on entry; it is returned untouched when the function returns      *)
(* true before STATIC_CAST_AND_RETURN.                                     *)
(***************************************************************************)
STATIC_CAST_AND_RETURN(r, value) ==
  [ret |-> FALSE, result |-> static_cast(r, value)]

cast_truncate(t, r, value, result) ==
  LET T_signed == t.signed
      R_signed == r.signed
      T_size   == t.size
      R_size   == r.size
      fail     == [ret |-> TRUE, result |-> result]
  IN  IF T_signed /\ R_signed THEN
        IF T_size = R_size THEN STATIC_CAST_AND_RETURN(r, value)
        ELSE IF T_size > R_size THEN
          IF value > numeric_limits_max(r) THEN fail
          ELSE STATIC_CAST_AND_RETURN(r, value)
        ELSE STATIC_CAST_AND_RETURN(r, value)
      ELSE IF ~T_signed /\ ~R_signed THEN
        IF T_size = R_size THEN STATIC_CAST_AND_RETURN(r, value)
        ELSE IF T_size > R_size THEN
          IF value > numeric_limits_max(r) THEN fail
          ELSE STATIC_CAST_AND_RETURN(r, value)
        ELSE STATIC_CAST_AND_RETURN(r, value)
      ELSE IF T_signed /\ ~R_signed THEN
        IF value < 0 THEN fail
        ELSE IF T_size = R_size THEN STATIC_CAST_AND_RETURN(r, value)
        ELSE IF T_size > R_size THEN
          LET unsigned_value == static_cast([signed |-> FALSE, size |-> T_size], value)
          IN  IF unsigned_value > numeric_limits_max(r) THEN fail
              ELSE STATIC_CAST_AND_RETURN(r, value)
        ELSE STATIC_CAST_AND_RETURN(r, value)
      ELSE
        IF value > numeric_limits_max(r) THEN fail
        ELSE STATIC_CAST_AND_RETURN(r, value)

(***************************************************************************)
(* The overflow probes.  Each returns [ret, result]: ret is the bool the   *)
(* function returns (TRUE: overflow), result the value *result holds when  *)
(* it returns.                                                             *)
(***************************************************************************)
\* builtin_overflow that tests the infinite-precision result against the
\* upper limit of the result type only.
builtin_overflow_upper_only(r, infinite) ==
  [ret |-> infinite > numeric_limits_max(r),
   result |-> static_cast(r, infinite)]

\* __builtin_{add,sub,mul}_overflow: the operation is done on the operands
\* in infinite precision, the result is converted to the type `result`
\* points to and stored, and the built-in returns whether the stored value
\* differs from the infinite-precision one.
builtin_overflow(r, infinite) ==
  LET stored == static_cast(r, infinite)
  IN  [ret |-> stored # infinite, result |-> stored]

add_overflow(t, u, r, x, y) == builtin_overflow(r, x + y)

sub_overflow(t, u, r, x, y) == builtin_overflow(r, x - y)

mul_overflow(t, u, r, x, y) == builtin_overflow(r, x * y)

\* The usual arithmetic conversions: the type in which `x / y` and `x % y`
\* are computed for operands of types t and u.
UsualArithmeticConversions(t, u) ==
  LET a == Promote(t)
      b == Promote(u)
  IN  IF a.size > b.size THEN a
      ELSE IF b.size > a.size THEN b
      ELSE IF a.signed THEN b ELSE a

\* divide_min_by_negative_1 without the test of the dividend.
divide_by_negative_1(t, u, dividend, divisor) ==
  u.signed /\ divisor = -1

divide_min_by_negative_1(t, u, dividend, divisor) ==
  u.signed /\ dividend = numeric_limits_min(t) /\ divisor = -1

div_overflow(t, u, r, dividend, divisor, result) ==
  IF divisor = 0 THEN [ret |-> TRUE, result |-> result]
  ELSE IF divide_min_by_negative_1(t, u, dividend, divisor)
    THEN [ret |-> TRUE, result |-> result]
  ELSE cast_truncate(UsualArithmeticConversions(t, u), r,
                     TruncDiv(dividend, divisor), result)

mod_overflow(t, u, r, dividend, divisor, result) ==
  IF divisor = 0 THEN [ret |-> TRUE, result |-> result]
  ELSE IF divide_min_by_negative_1(t, u, dividend, divisor)
    THEN [ret |-> TRUE, result |-> result]
  ELSE cast_truncate(UsualArithmeticConversions(t, u), r,
                     TruncMod(dividend, divisor), result)

(***************************************************************************)
(* The trapping entry points.  Each returns [trapped, result]: trapped     *)
(* tells that trap() was called, and then nothing is returned.             *)
(***************************************************************************)
\* trap() ends the process and does not return.
trap == [trapped |-> TRUE, result |-> 0]

Return(v) == [trapped |-> FALSE, result |-> v]

trapping_cast(t, r, value) ==
  LET probe == cast_truncate(t, r, value, 0)
  IN  IF probe.ret THEN trap ELSE Return(probe.result)

trapping_add(t, u, r, x, y) ==
  LET probe == add_overflow(t, u, r, x, y)
  IN  IF probe.ret THEN trap ELSE Return(probe.result)

trapping_mul(t, u, r, x, y) ==
  LET probe == mul_overflow(t, u, r, x, y)
  IN  IF probe.ret THEN trap ELSE Return(probe.result)

trapping_sub(t, u, r, x, y) ==
  LET probe == sub_overflow(t, u, r, x, y)
  IN  IF probe.ret THEN trap ELSE Return(probe.result)

\* trapping_div that returns `result` whatever div_overflow returns.
trapping_div_unchecked(t, u, r, dividend, divisor) ==
  Return(div_overflow(t, u, r, dividend, divisor, 0).result)

trapping_div(t, u, r, dividend, divisor) ==
  LET probe == div_overflow(t, u, r, dividend, divisor, 0)
  IN  IF probe.ret THEN trap ELSE Return(probe.result)

trapping_mod(t, u, r, dividend, divisor) ==
  LET probe == mod_overflow(t, u, r, dividend, divisor, 0)
  IN  IF probe.ret THEN trap ELSE Return(probe.result)

(***************************************************************************)
(* class trapping<T>.  An operator applied to an object of underlying type *)
(* t that holds `value` gives [trapped, value_, result]: whether trap()    *)
(* was called, what the object holds when the operator returns or traps,   *)
(* and the value returned.                                                 *)
(***************************************************************************)
Returns(value, result) ==
  [trapped |-> FALSE, value_ |-> value, result |-> result]

Traps(value) == [trapped |-> TRUE, value_ |-> value, result |-> 0]

\* `value_ = trapping_op<T, T, T>(value_, x); return *this;`: the entry
\* point traps before the assignment takes place.
AssignChecked(value, entry) ==
  IF entry.trapped THEN Traps(value)
  ELSE Returns(entry.result, entry.result)

\* A friend binary operator works on `lhs`, a copy of the left operand: the
\* operand keeps its value and the copy is returned.
OnCopy(lhs, out) ==
  [trapped |-> out.trapped, value_ |-> lhs, result |-> out.value_]

\* The built-in << on promoted operands: E1 * 2^E2.  (The products formed
\* here fit an int; for a negative E1 this is the value C++20 defines and
\* the one GCC and Clang give under earlier standards.)
ShiftLeft(a, n) == a * 2^n

\* The built-in >> on promoted operands: E1 / 2^E2 rounded down (an
\* arithmetic shift).
ShiftRight(a, n) == a \div 2^n

operator_add_assign(t, value, x) ==
  AssignChecked(value, trapping_add(t, t, t, value, x))

operator_add(t, lhs, rhs) == OnCopy(lhs, operator_add_assign(t, lhs, rhs))

operator_plus(t, value) == Returns(value, value)

\* operator-= by the built-in `value_ -= x`, which wraps around.
operator_sub_assign_wrapping(t, value, x) ==
  LET wrapped == static_cast(t, value - x)
  IN  Returns(wrapped, wrapped)

operator_sub_assign(t, value, x) ==
  AssignChecked(value, trapping_sub(t, t, t, value, x))

operator_sub(t, lhs, rhs) == OnCopy(lhs, operator_sub_assign(t, lhs, rhs))

\* Unary - without the test for the minimum value.
operator_minus_unchecked(t, value) ==
  LET negated == static_cast(t, 0 - value)
  IN  Returns(negated, negated)

operator_minus(t, value) ==
  IF t.signed /\ value = numeric_limits_min(t) THEN Traps(value)
  ELSE LET negated == static_cast(t, 0 - value)
       IN  Returns(negated, negated)

operator_mul_assign(t, value, x) ==
  AssignChecked(value, trapping_mul(t, t, t, value, x))

operator_mul(t, lhs, rhs) == OnCopy(lhs, operator_mul_assign(t, lhs, rhs))

operator_div_assign(t, value, divisor) ==
  AssignChecked(value, trapping_div(t, t, t, value, divisor))

operator_div(t, dividend, divisor) ==
  OnCopy(dividend, operator_div_assign(t, dividend, divisor))

operator_mod_assign(t, value, divisor) ==
  AssignChecked(value, trapping_mod(t, t, t, value, divisor))

operator_mod(t, dividend, divisor) ==
  OnCopy(dividend, operator_mod_assign(t, dividend, divisor))

\* The built-in |, & and ^ on promoted operands, over two's-complement
\* integers of any width: 0 is all zero bits, -1 all one bits, and a \div 2
\* drops the lowest bit.
RECURSIVE BitOr(_, _)
BitOr(a, b) ==
  IF a = 0 THEN b
  ELSE IF b = 0 THEN a
  ELSE IF a = 0 - 1 \/ b = 0 - 1 THEN 0 - 1
  ELSE (IF a % 2 = 1 \/ b % 2 = 1 THEN 1 ELSE 0)
       + 2 * BitOr(a \div 2, b \div 2)

RECURSIVE BitAnd(_, _)
BitAnd(a, b) ==
  IF a = 0 \/ b = 0 THEN 0
  ELSE IF a = 0 - 1 THEN b
  ELSE IF b = 0 - 1 THEN a
  ELSE (IF a % 2 = 1 /\ b % 2 = 1 THEN 1 ELSE 0)
       + 2 * BitAnd(a \div 2, b \div 2)

RECURSIVE BitXor(_, _)
BitXor(a, b) ==
  IF a = 0 THEN b
  ELSE IF b = 0 THEN a
  ELSE IF a = 0 - 1 THEN 0 - 1 - b
  ELSE IF b = 0 - 1 THEN 0 - 1 - a
  ELSE (IF a % 2 # b % 2 THEN 1 ELSE 0)
       + 2 * BitXor(a \div 2, b \div 2)

\* `value_ |= x.value_` with `const T& x`: the operand's value is x itself.
operator_or_assign(t, value, x) ==
  LET combined == static_cast(t, BitOr(value, x))
  IN  Returns(combined, combined)

operator_or(t, lhs, rhs) == OnCopy(lhs, operator_or_assign(t, lhs, rhs))

operator_and_assign(t, value, x) ==
  LET combined == static_cast(t, BitAnd(value, x))
  IN  Returns(combined, combined)

operator_and(t, lhs, rhs) == OnCopy(lhs, operator_and_assign(t, lhs, rhs))

operator_xor_assign(t, value, x) ==
  LET combined == static_cast(t, BitXor(value, x))
  IN  Returns(combined, combined)

\* The body of operator^ is `lhs |= rhs; return lhs;`.
operator_xor(t, lhs, rhs) == OnCopy(lhs, operator_or_assign(t, lhs, rhs))

\* operator>>= that lets a shift amount of 0 through.
operator_shr_assign_from_0(t, value, x) ==
  IF x < 0 \/ x > CHAR_BIT * t.size - 1 THEN Traps(value)
  ELSE LET shifted == static_cast(t, ShiftRight(value, x))
       IN  Returns(shifted, shifted)

operator_shr_assign(t, value, x) ==
  IF x < 1 \/ x > CHAR_BIT * t.size - 1 THEN Traps(value)
  ELSE LET shifted == static_cast(t, ShiftRight(value, x))
       IN  Returns(shifted, shifted)

operator_shr(t, lhs, rhs) == OnCopy(lhs, operator_shr_assign(t, lhs, rhs))

\* operator<<= that shifts value_ in place before the overflow test.
operator_shl_assign_write_first(t, value, x) ==
  IF x < 1 \/ x > CHAR_BIT * t.size - 1 THEN Traps(value)
  ELSE LET y == static_cast(t, ShiftLeft(x, CHAR_BIT * t.size - x))
           shifted == static_cast(t, ShiftLeft(value, x))
       IN  IF value > y THEN Traps(shifted)
           ELSE Returns(shifted, shifted)

operator_shl_assign(t, value, x) ==
  IF x < 1 \/ x > CHAR_BIT * t.size - 1 THEN Traps(value)
  ELSE LET y == static_cast(t, ShiftLeft(x, CHAR_BIT * t.size - x))
       IN  IF value > y THEN Traps(value)
           ELSE LET shifted == static_cast(t, ShiftLeft(value, x))
                IN  Returns(shifted, shifted)

operator_shl(t, lhs, rhs) == OnCopy(lhs, operator_shl_assign(t, lhs, rhs))

\* The comparisons take both operands by reference to const and return a
\* bool.
operator_lt(lhs, rhs) == lhs < rhs

operator_gt(lhs, rhs) == operator_lt(rhs, lhs)

operator_le(lhs, rhs) == ~operator_gt(lhs, rhs)

operator_ge(lhs, rhs) == ~operator_gt(rhs, lhs)

operator_eq(lhs, rhs) == lhs = rhs

operator_ne(lhs, rhs) == ~operator_eq(lhs, rhs)

operator_pre_inc(t, value) == operator_add_assign(t, value, 1)

\* Postfix ++ that returns the incremented object.
operator_post_inc_returns_new(t, value) == operator_add_assign(t, value, 1)

operator_post_inc(t, value) ==
  LET previous == value
      out == operator_add_assign(t, value, 1)
  IN  IF out.trapped THEN out ELSE Returns(out.value_, previous)

operator_pre_dec(t, value) == operator_sub_assign(t, value, 1)

operator_post_dec(t, value) ==
  LET previous == value
      out == operator_sub_assign(t, value, 1)
  IN  IF out.trapped THEN out ELSE Returns(out.value_, previous)

operator_T(t, value) == Returns(value, value)

operator_U(t, u, value) ==
  LET cast == trapping_cast(t, u, value)
  IN  IF cast.trapped THEN Traps(value) ELSE Returns(value, cast.result)

(***************************************************************************)
(* The values explored.                                                    *)
(***************************************************************************)
IntTypes == {Int8, UInt8, Int16, UInt16, Int32}

\* Operand types of the arithmetic probes: the types whose exact sums and
\* products stay within the checker's integers.
ArithTypes == {Int8, UInt8, Int16}

\* Underlying types of the trapping<T> objects explored: the types all of
\* whose values the operators reach.
ObjTypes == {Int8, UInt8}

\* The limits of the narrow types, zero, and the operands of the documented
\* scenarios (200 + 100 in uint8_t, 200 into int8_t).
Pivots ==
  {0, 100, 200} \cup
  UNION {{numeric_limits_min(t), numeric_limits_max(t)} :
           t \in IntTypes \ {Int32}}

\* The sampled values of type t: those within Near of a pivot or of one of
\* the type's own limits.
Values(t) ==
  {v \in UNION {(p - Near)..(p + Near) : p \in Pivots} : InRange(t, v)}
  \cup {numeric_limits_min(t) + k : k \in 0..Near}
  \cup {numeric_limits_max(t) - k : k \in 0..Near}

(***************************************************************************)
(* State.                                                                  *)
(***************************************************************************)
VARIABLES
  T,        \* the underlying type of the trapping<T> object
  value_,   \* trapping<T>::value_
  trapped,  \* trap() has been called: the process is gone
  exact,    \* the operators applied so far, computed over the integers
  call,     \* the last call: [fn, t, u, r, x, y]
  ret       \* what it returned: [ret, result]

vars == <<T, value_, trapped, exact, call, ret>>

Call(fn, t, u, r, x, y) ==
  [fn |-> fn, t |-> t, u |-> u, r |-> r, x |-> x, y |-> y]

(***************************************************************************)
(* The free functions, each applied once to inputs drawn by InitProbe:     *)
(* call.t, call.u and call.r are the template arguments T, U and R,        *)
(* call.x and call.y the operands.                                         *)
(***************************************************************************)
InitProbe ==
  /\ T = Int8 /\ value_ = 0 /\ exact = 0
  /\ trapped = FALSE
  /\ \E t \in IntTypes, u \in ArithTypes, r \in IntTypes :
       \E x \in Values(t), y \in Values(u) :
         call = Call("main", t, u, r, x, y)
  /\ ret = [ret |-> FALSE, result |-> 0]

\* A probe returns its bool and leaves the value in *result.
Probe(fn, out) ==
  /\ call.fn = "main"
  /\ call' = [call EXCEPT !.fn = fn]
  /\ ret' = out
  /\ UNCHANGED <<T, value_, trapped, exact>>

\* A trapping entry point returns the value or ends the process.
Entry(fn, out) ==
  /\ call.fn = "main"
  /\ call' = [call EXCEPT !.fn = fn]
  /\ trapped' = out.trapped
  /\ ret' = [ret |-> FALSE, result |-> out.result]
  /\ UNCHANGED <<T, value_, exact>>

Arith == call.t \in ArithTypes

CallCastTruncate ==
  Probe("cast_truncate", cast_truncate(call.t, call.r, call.x, 0))

CallAddOverflow ==
  Arith /\ Probe("add_overflow", add_overflow(call.t, call.u, call.r, call.x, call.y))

CallSubOverflow ==
  Arith /\ Probe("sub_overflow", sub_overflow(call.t, call.u, call.r, call.x, call.y))

CallMulOverflow ==
  Arith /\ Probe("mul_overflow", mul_overflow(call.t, call.u, call.r, call.x, call.y))

CallDivOverflow ==
  Arith /\ Probe("div_overflow",
                 div_overflow(call.t, call.u, call.r, call.x, call.y, 0))

CallModOverflow ==
  Arith /\ Probe("mod_overflow",
                 mod_overflow(call.t, call.u, call.r, call.x, call.y, 0))

CallTrappingCast ==
  Entry("trapping_cast", trapping_cast(call.t, call.r, call.x))

CallTrappingAdd ==
  Arith /\ Entry("trapping_add", trapping_add(call.t, call.u, call.r, call.x, call.y))

CallTrappingSub ==
  Arith /\ Entry("trapping_sub", trapping_sub(call.t, call.u, call.r, call.x, call.y))

CallTrappingMul ==
  Arith /\ Entry("trapping_mul", trapping_mul(call.t, call.u, call.r, call.x, call.y))

CallTrappingDiv ==
  Arith /\ Entry("trapping_div", trapping_div(call.t, call.u, call.r, call.x, call.y))

CallTrappingMod ==
  Arith /\ Entry("trapping_mod", trapping_mod(call.t, call.u, call.r, call.x, call.y))

NextProbe ==
  \/ CallCastTruncate
  \/ CallAddOverflow
  \/ CallSubOverflow
  \/ CallMulOverflow
  \/ CallDivOverflow
  \/ CallModOverflow
  \/ CallTrappingCast
  \/ CallTrappingAdd
  \/ CallTrappingSub
  \/ CallTrappingMul
  \/ CallTrappingDiv
  \/ CallTrappingMod

SpecProbe == InitProbe /\ [][NextProbe]_vars

(***************************************************************************)
(* One trapping<T> object and the operators applied to it.  call.x is the  *)
(* value the object held when the operator was invoked, call.y the         *)
(* operand, call.u the target type of a conversion.                        *)
(***************************************************************************)
\* Shift amounts: the values of T from below 1 to beyond the bit width.
ShiftAmounts(t) == {n \in (0 - Near)..(Bits(t) + Near) : InRange(t, n)}

\* trapping(const T& value) : value_(value) {}
Init ==
  /\ T \in ObjTypes
  /\ value_ \in Values(T)
  /\ exact = value_
  /\ trapped = FALSE
  /\ call = Call("main", T, T, T, value_, 0)
  /\ ret = [ret |-> FALSE, result |-> 0]

\* The program is about to apply an operator to the object.  trap() ends
\* the process, so nothing runs once trapped.
Ready == ~trapped /\ call.fn = "main"

\* The program applies the operator fn with operand y, which gives `out`.
\* `math` is the result of the operator over the integers on the value the
\* object holds: as long as every operator so far has left value_ = exact,
\* that is the result of the whole sequence of operators over the integers.
Apply(fn, u, y, out, math) ==
  /\ call' = Call(fn, T, u, T, value_, y)
  /\ trapped' = out.trapped
  /\ value_' = out.value_
  /\ ret' = [ret |-> FALSE, result |-> out.result]
  /\ exact' = IF out.trapped THEN exact ELSE math
  /\ UNCHANGED T

\* The operator has returned and the program goes on to its next
\* statement, dropping the value returned.
NextStatement ==
  /\ ~trapped
  /\ call.fn # "main"
  /\ call' = Call("main", T, T, T, value_, 0)
  /\ ret' = [ret |-> FALSE, result |-> 0]
  /\ UNCHANGED <<T, value_, trapped, exact>>

AddAssign ==
  /\ Ready
  /\ \E x \in Values(T) :
       Apply("operator+=", T, x, operator_add_assign(T, value_, x),
             value_ + x)

SubAssign ==
  /\ Ready
  /\ \E x \in Values(T) :
       Apply("operator-=", T, x, operator_sub_assign(T, value_, x),
             value_ - x)

MulAssign ==
  /\ Ready
  /\ \E x \in Values(T) :
       Apply("operator*=", T, x, operator_mul_assign(T, value_, x),
             value_ * x)

DivAssign ==
  /\ Ready
  /\ \E x \in Values(T) :
       Apply("operator/=", T, x, operator_div_assign(T, value_, x),
             TruncDiv(value_, x))

ModAssign ==
  /\ Ready
  /\ \E x \in Values(T) :
       Apply("operator%=", T, x, operator_mod_assign(T, value_, x),
             TruncMod(value_, x))

ShlAssign ==
  /\ Ready
  /\ \E x \in ShiftAmounts(T) :
       Apply("operator<<=", T, x, operator_shl_assign(T, value_, x),
             value_ * 2^x)

\* >>= and unary - are not among the operators exact follows: exact starts
\* anew from the value they leave.
ShrAssign ==
  /\ Ready
  /\ \E x \in ShiftAmounts(T) :
       LET out == operator_shr_assign(T, value_, x)
       IN  Apply("operator>>=", T, x, out, out.value_)

Minus ==
  /\ Ready
  /\ LET out == operator_minus(T, value_)
     IN  Apply("operator-()", T, 0, out, out.value_)

Plus ==
  Ready /\ Apply("operator+()", T, 0, operator_plus(T, value_), exact)

PreInc ==
  /\ Ready
  /\ Apply("operator++()", T, 0, operator_pre_inc(T, value_), value_ + 1)

PostInc ==
  /\ Ready
  /\ Apply("operator++(int)", T, 0, operator_post_inc(T, value_), value_ + 1)

PreDec ==
  /\ Ready
  /\ Apply("operator--()", T, 0, operator_pre_dec(T, value_), value_ - 1)

PostDec ==
  /\ Ready
  /\ Apply("operator--(int)", T, 0, operator_post_dec(T, value_), value_ - 1)

Add ==
  /\ Ready
  /\ \E rhs \in Values(T) :
       Apply("operator+", T, rhs, operator_add(T, value_, rhs), exact)

Sub ==
  /\ Ready
  /\ \E rhs \in Values(T) :
       Apply("operator-", T, rhs, operator_sub(T, value_, rhs), exact)

Mul ==
  /\ Ready
  /\ \E rhs \in Values(T) :
       Apply("operator*", T, rhs, operator_mul(T, value_, rhs), exact)

Div ==
  /\ Ready
  /\ \E rhs \in Values(T) :
       Apply("operator/", T, rhs, operator_div(T, value_, rhs), exact)

Mod ==
  /\ Ready
  /\ \E rhs \in Values(T) :
       Apply("operator%", T, rhs, operator_mod(T, value_, rhs), exact)

\* |=, &= and ^= are not among the operators exact follows either.
OrAssign ==
  /\ Ready
  /\ \E x \in Values(T) :
       LET out == operator_or_assign(T, value_, x)
       IN  Apply("operator|=", T, x, out, out.value_)

AndAssign ==
  /\ Ready
  /\ \E x \in Values(T) :
       LET out == operator_and_assign(T, value_, x)
       IN  Apply("operator&=", T, x, out, out.value_)

XorAssign ==
  /\ Ready
  /\ \E x \in Values(T) :
       LET out == operator_xor_assign(T, value_, x)
       IN  Apply("operator^=", T, x, out, out.value_)

Or ==
  /\ Ready
  /\ \E rhs \in Values(T) :
       Apply("operator|", T, rhs, operator_or(T, value_, rhs), exact)

And ==
  /\ Ready
  /\ \E rhs \in Values(T) :
       Apply("operator&", T, rhs, operator_and(T, value_, rhs), exact)

Xor ==
  /\ Ready
  /\ \E rhs \in Values(T) :
       Apply("operator^", T, rhs, operator_xor(T, value_, rhs), exact)

Shl ==
  /\ Ready
  /\ \E rhs \in ShiftAmounts(T) :
       Apply("operator<<", T, rhs, operator_shl(T, value_, rhs), exact)

Shr ==
  /\ Ready
  /\ \E rhs \in ShiftAmounts(T) :
       Apply("operator>>", T, rhs, operator_shr(T, value_, rhs), exact)

\* The program compares the object with rhs and gets the bool b.
Compare(fn, rhs, b) ==
  /\ call' = Call(fn, T, T, T, value_, rhs)
  /\ ret' = [ret |-> b, result |-> 0]
  /\ UNCHANGED <<T, value_, trapped, exact>>

Less ==
  /\ Ready
  /\ \E rhs \in Values(T) : Compare("operator<", rhs, operator_lt(value_, rhs))

Greater ==
  /\ Ready
  /\ \E rhs \in Values(T) : Compare("operator>", rhs, operator_gt(value_, rhs))

LessEq ==
  /\ Ready
  /\ \E rhs \in Values(T) : Compare("operator<=", rhs, operator_le(value_, rhs))

GreaterEq ==
  /\ Ready
  /\ \E rhs \in Values(T) : Compare("operator>=", rhs, operator_ge(value_, rhs))

Equal ==
  /\ Ready
  /\ \E rhs \in Values(T) : Compare("operator==", rhs, operator_eq(value_, rhs))

NotEqual ==
  /\ Ready
  /\ \E rhs \in Values(T) : Compare("operator!=", rhs, operator_ne(value_, rhs))

ConvertT ==
  Ready /\ Apply("operator T", T, 0, operator_T(T, value_), exact)

ConvertU ==
  /\ Ready
  /\ \E u \in IntTypes \ {T} :
       Apply("operator U", u, 0, operator_U(T, u, value_), exact)

Next ==
  \/ AddAssign
  \/ SubAssign
  \/ MulAssign
  \/ DivAssign
  \/ ModAssign
  \/ ShlAssign
  \/ ShrAssign
  \/ Minus
  \/ Plus
  \/ PreInc
  \/ PostInc
  \/ PreDec
  \/ PostDec
  \/ Add
  \/ Sub
  \/ Mul
  \/ Div
  \/ Mod
  \/ OrAssign
  \/ AndAssign
  \/ XorAssign
  \/ Or
  \/ And
  \/ Xor
  \/ Shl
  \/ Shr
  \/ Less
  \/ Greater
  \/ LessEq
  \/ GreaterEq
  \/ Equal
  \/ NotEqual
  \/ ConvertT
  \/ ConvertU
  \/ NextStatement

Spec == Init /\ [][Next]_vars

(***************************************************************************)
(* Properties of the free functions (checked under SpecProbe).             *)
(***************************************************************************)
\* The exact result of the arithmetic probe or entry point applied last.
ExactResult ==
  CASE call.fn \in {"add_overflow", "trapping_add"} -> call.x + call.y
    [] call.fn \in {"sub_overflow", "trapping_sub"} -> call.x - call.y
    [] call.fn \in {"mul_overflow", "trapping_mul"} -> call.x * call.y

\* q is the quotient of x by y truncated towards zero: the remainder
\* x - q*y is smaller than y in magnitude and is zero or has the sign of x.
IsTruncatedQuotient(q, x, y) ==
  LET rem == x - q * y
  IN  Abs(rem) < Abs(y) /\ (rem = 0 \/ (rem < 0) = (x < 0))

\* m is the remainder of x by y: x - m is a multiple of y, m is smaller than
\* y in magnitude and is zero or has the sign of x.
IsRemainder(m, x, y) ==
  /\ (x - m) % Abs(y) = 0
  /\ Abs(m) < Abs(y)
  /\ (m = 0 \/ (m < 0) = (x < 0))

\* C2: cast_truncate(v, &r) returns false if and only if v is representable
\* in R, and then the value written to r equals v.
C2_CastTruncateExact ==
  call.fn = "cast_truncate" =>
    /\ ~ret.ret <=> InRange(call.r, call.x)
    /\ ~ret.ret => ret.result = call.x

\* C3: add_overflow, sub_overflow and mul_overflow return true if and only
\* if the exact sum, difference or product lies outside [R_min, R_max], and
\* on success the value written equals the exact value.
C3_ArithOverflowExact ==
  call.fn \in {"add_overflow", "sub_overflow", "mul_overflow"} =>
    /\ ret.ret <=> ~InRange(call.r, ExactResult)
    /\ ~ret.ret => ret.result = ExactResult

\* C3 witness: the sum 200 + 100 reported as overflowing uint8_t.
C3_Witness ==
  /\ call = Call("add_overflow", UInt8, UInt8, UInt8, 200, 100)
  /\ ret.ret

\* C4: with dividend, divisor and result of one type T, div_overflow and
\* mod_overflow return true if and only if the divisor is 0 or T is signed,
\* the dividend is T_min and the divisor is -1; otherwise they write the
\* truncating quotient, respectively the remainder.
C4_DivModOverflow ==
  (/\ call.fn \in {"div_overflow", "mod_overflow"}
   /\ call.t = call.u /\ call.t = call.r) =>
    /\ ret.ret <=>
         \/ call.y = 0
         \/ call.t.signed /\ call.x = numeric_limits_min(call.t) /\ call.y = -1
    /\ (~ret.ret /\ call.fn = "div_overflow") =>
         IsTruncatedQuotient(ret.result, call.x, call.y)
    /\ (~ret.ret /\ call.fn = "mod_overflow") =>
         IsRemainder(ret.result, call.x, call.y)

\* C4 witness: INT8_MIN % -1 reported as a failure by mod_overflow.
C4_Witness ==
  /\ call = Call("mod_overflow", Int8, Int8, Int8, -128, -1)
  /\ ret.ret

\* What the probe matching the entry point applied last returns on the
\* same inputs.
MatchingProbe ==
  CASE call.fn = "trapping_cast" -> cast_truncate(call.t, call.r, call.x, 0)
    [] call.fn = "trapping_add" ->
         add_overflow(call.t, call.u, call.r, call.x, call.y)
    [] call.fn = "trapping_sub" ->
         sub_overflow(call.t, call.u, call.r, call.x, call.y)
    [] call.fn = "trapping_mul" ->
         mul_overflow(call.t, call.u, call.r, call.x, call.y)
    [] call.fn = "trapping_div" ->
         div_overflow(call.t, call.u, call.r, call.x, call.y, 0)
    [] call.fn = "trapping_mod" ->
         mod_overflow(call.t, call.u, call.r, call.x, call.y, 0)

EntryPoints ==
  {"trapping_cast", "trapping_add", "trapping_sub", "trapping_mul",
   "trapping_div", "trapping_mod"}

\* C5: a trapping entry point calls trap on exactly the inputs on which its
\* probe returns true, and on every other input returns the value the probe
\* writes.
C5_EntryMatchesProbe ==
  call.fn \in EntryPoints =>
    /\ trapped <=> MatchingProbe.ret
    /\ ~trapped => ret.result = MatchingProbe.result

\* C5 witness: trapping_div has trapped on a division by zero.
C5_Witness ==
  /\ call.fn = "trapping_div" /\ call.y = 0
  /\ trapped

\* C10: trapping_cast<T, R>(v) traps if and only if v is not representable
\* in R, and otherwise returns a value equal to v.
C10_TrappingCastExact ==
  call.fn = "trapping_cast" =>
    /\ trapped <=> ~InRange(call.r, call.x)
    /\ ~trapped => ret.result = call.x

(***************************************************************************)
(* Properties of trapping<T> (checked under Spec).                         *)
(***************************************************************************)
\* C1: after any sequence of +=, -=, *=, /=, %=, <<=, ++ and --, either the
\* execution has trapped or the object holds the result of the sequence
\* over the integers, which lies in [T_min, T_max].
C1_ExactOrTrapped ==
  ~trapped => (value_ = exact /\ InRange(T, exact))

CompoundArith ==
  {"operator+=", "operator-=", "operator*=", "operator/=", "operator%="}

BinaryArith ==
  {"operator+", "operator-", "operator*", "operator/", "operator%"}

Division == {"operator/=", "operator/", "operator%=", "operator%"}

\* r is the exact result of the arithmetic operator applied last to a and b.
IsExactResult(r, a, b) ==
  CASE call.fn \in {"operator+=", "operator+"} -> r = a + b
    [] call.fn \in {"operator-=", "operator-"} -> r = a - b
    [] call.fn \in {"operator*=", "operator*"} -> r = a * b
    [] call.fn \in {"operator/=", "operator/"} -> IsTruncatedQuotient(r, a, b)
    [] call.fn \in {"operator%=", "operator%"} -> IsRemainder(r, a, b)

\* C6: a op b, op one of + - * / % or its compound form, traps if and only
\* if op divides and b is 0, or op divides, T is signed, a is T_min and b is
\* -1, or the exact result lies outside [T_min, T_max]; otherwise it yields
\* exactly that result (the compound form in the object, the binary form in
\* the value returned, leaving the object as it was).
C6_ArithTrapsIffInexact ==
  call.fn \in CompoundArith \cup BinaryArith =>
    LET a == call.x
        b == call.y
        mustTrap ==
          IF call.fn \in Division /\ b = 0 THEN TRUE
          ELSE \/ /\ call.fn \in Division
                  /\ T.signed /\ a = numeric_limits_min(T) /\ b = -1
               \/ \A r \in numeric_limits_min(T)..numeric_limits_max(T) :
                    ~IsExactResult(r, a, b)
    IN  /\ trapped <=> mustTrap
        /\ (~trapped /\ call.fn \in CompoundArith) =>
             IsExactResult(value_, a, b)
        /\ (~trapped /\ call.fn \in BinaryArith) =>
             (IsExactResult(ret.result, a, b) /\ value_ = a)

\* C6 witness: trapping<uint8_t>(200) + 100 has trapped.
C6_Witness ==
  /\ call = Call("operator+", UInt8, UInt8, UInt8, 200, 100)
  /\ trapped

\* C7: for a shift amount n in [1, bits(T) - 1], <<= traps if and only if
\* value * 2^n is not representable in T, and otherwise leaves value * 2^n
\* in the object.
C7_ShlTrapsIffBitsLost ==
  (/\ call.fn = "operator<<="
   /\ 1 <= call.y /\ call.y <= Bits(T) - 1) =>
    /\ trapped <=> ~InRange(T, call.x * 2^call.y)
    /\ ~trapped => value_ = call.x * 2^call.y

\* C8: <<= and >>= trap whenever n < 1 or n > bits(T) - 1; >>= traps in no
\* other case and otherwise leaves value >> n, the greatest q with
\* q * 2^n <= value, in the object.
C8_ShiftAmountChecked ==
  LET n == call.y
      outOfRange == n < 1 \/ n > Bits(T) - 1
  IN  /\ (call.fn \in {"operator<<=", "operator>>="} /\ outOfRange) => trapped
      /\ call.fn = "operator>>=" =>
           /\ trapped => outOfRange
           /\ ~trapped =>
                /\ value_ * 2^n <= call.x
                /\ call.x < (value_ + 1) * 2^n

\* C8 witness: trapping<uint8_t>(1) shifted left by 8 has trapped.
C8_Witness ==
  /\ call = Call("operator<<=", UInt8, UInt8, UInt8, 1, 8)
  /\ trapped

\* C9: a trap happens before the contained value is written, so the object
\* still holds the value it had when the operator was invoked, and after
\* the trap nothing changes any more.
C9_TrapBeforeWrite ==
  [][/\ (~trapped /\ trapped') => (value_' = value_ /\ T' = T)
     /\ trapped => UNCHANGED vars]_vars

\* C9 witness: trapping<int8_t>(127) += 1 has trapped with 127 still in the
\* object.
C9_Witness ==
  /\ call = Call("operator+=", Int8, Int8, Int8, 127, 1)
  /\ trapped
  /\ value_ = 127

\* Bit i of the two's-complement representation of v in type t.
Bit(t, v, i) == ((v % 2^Bits(t)) \div 2^i) % 2

C12_UnaryMinusPlus ==
  /\ call.fn = "operator-()" =>
       /\ trapped <=> (T.signed /\ call.x = numeric_limits_min(T))
       /\ ~trapped =>
            /\ InRange(T, ret.result)
            /\ IF T.signed THEN ret.result + call.x = 0
               ELSE (ret.result + call.x) % 2^Bits(T) = 0
  /\ call.fn = "operator+()" => (~trapped /\ ret.result = call.x)

\* C12 witness: the negation of trapping<int8_t>(-128) has trapped.
C12_Witness ==
  /\ call = Call("operator-()", Int8, Int8, Int8, 0 - 128, 0)
  /\ trapped

\* C13: ++ traps if and only if the object holds T_max, -- if and only if
\* it holds T_min; otherwise the object holds v + 1 or v - 1, the prefix
\* forms return the new value and the postfix forms the previous one.
C13_IncDec ==
  LET v == call.x
      inc == call.fn \in {"operator++()", "operator++(int)"}
      dec == call.fn \in {"operator--()", "operator--(int)"}
      prefix == call.fn \in {"operator++()", "operator--()"}
  IN  /\ inc => (trapped <=> v = numeric_limits_max(T))
      /\ dec => (trapped <=> v = numeric_limits_min(T))
      /\ ((inc \/ dec) /\ ~trapped) =>
           /\ value_ = IF inc THEN v + 1 ELSE v - 1
           /\ ret.result = IF prefix THEN value_ ELSE v

\* C13 witness: the postfix increment of trapping<uint8_t>(254) has
\* returned 254 and left 255 in the object.
C13_Witness ==
  /\ call = Call("operator++(int)", UInt8, UInt8, UInt8, 254, 0)
  /\ ~trapped
  /\ value_ = 255
  /\ ret.result = 254

\* The operators that do not assign: the binary forms, the comparisons and
\* the unary forms.
NonAssigning ==
  {"operator+", "operator-", "operator*", "operator/", "operator%",
   "operator|", "operator&", "operator^", "operator<<", "operator>>",
   "operator<", "operator>", "operator<=", "operator>=", "operator==",
   "operator!=", "operator+()", "operator-()"}

\* C14: a non-assigning operator leaves the object it is applied to holding
\* the value it held before.
C14_NonAssigningKeepsOperand ==
  call.fn \in NonAssigning => value_ = call.x

====
